---------------------------- MODULE Spec2Model ----------------------------
(***************************************************************************)
(* A model of ComprehensiveOptionsAnalyzer.analyze_option (src/main.py).   *)
(*                                                                         *)
(* Floating-point values are modelled as IEEE-style values: a finite       *)
(* number in fixed point (three decimal digits), NaN, +inf or -inf.        *)
(* Division by zero, log of a non-positive number and sqrt of a negative   *)
(* number produce inf / NaN as numpy does (a warning, never an exception). *)
(* One action models one step of the method; a call that ends (by return   *)
(* or by an uncaught exception) leaves the analyzer ready for another call.*)
(***************************************************************************)
EXTENDS Integers, Sequences, FiniteSets

VARIABLES
    self,            \* the analyzer object's attributes
    pc,              \* position inside analyze_option ("idle": no call running)
    args,            \* the parameters of the current / last call
    hist,            \* the fetched closing prices (hist['Close'])
    current_price,   \* locals of analyze_option ...
    daily_returns,
    volatility,
    avg_daily_move,
    max_daily_gain,
    max_daily_loss,
    std_dev,
    prob_profit,
    analysis,
    rendered,        \* what plot_comprehensive_analysis has drawn in this call
    outcome,         \* how the current / last call ended
    steps,           \* the steps of the current / last call that completed
    kept             \* a record returned by an earlier call, kept by the caller
                     \* with its inputs (latest: no call was made since)

vars == <<self, pc, args, hist, current_price, daily_returns, volatility,
          avg_daily_move, max_daily_gain, max_daily_loss, std_dev,
          prob_profit, analysis, rendered, outcome, steps, kept>>

-----------------------------------------------------------------------------
(* Bounds and program constants *)

\* longest price series the collaborator returns
MaxLen == 3

\* fixed-point resolution: 1.0 is Scale
Scale == 10 * 10 * 10

RiskFreeRate == 50
TradingDays == 252
DaysPerYear == 365
DefaultInvestment == 1000

Prices == {100, 105}
Tickers == {"AAPL"}
Strikes == {0, 100, 105}
Days == {0, 30}
OptionTypes == {"call", "put", "CALL"}
Investments == {DefaultInvestment, 2 * DefaultInvestment}

\* the price series the market-data collaborator may return: up to MaxLen
\* closes, the oldest one at the lowest price
FirstClose == CHOOSE p \in Prices : \A q \in Prices : p <= q

PriceSeries ==
    UNION { {s \in [1..n -> Prices] : n > 0 => s[1] = FirstClose} : n \in 0..MaxLen }

-----------------------------------------------------------------------------
(* Floating-point values *)

Num(v) == [k |-> "num", v |-> v]
NaN == [k |-> "nan", v |-> 0]
PosInf == [k |-> "inf", v |-> 1]
NegInf == [k |-> "inf", v |-> -1]
None == [k |-> "none", v |-> 0]

IsNum(a) == a.k = "num"
IsNaN(a) == a.k = "nan"
IsInf(a) == a.k = "inf"

Sign(n) == IF n > 0 THEN 1 ELSE IF n < 0 THEN -1 ELSE 0
Abs(n) == IF n < 0 THEN -n ELSE n

\* a > b on floats: false whenever either side is NaN
FGt(a, b) ==
    IF IsNaN(a) \/ IsNaN(b) THEN FALSE
    ELSE IF IsInf(a) THEN a.v = 1 /\ b # PosInf
    ELSE IF IsInf(b) THEN b.v = -1
    ELSE a.v > b.v

FLt(a, b) == FGt(b, a)

\* a * b
FMul(a, b) ==
    IF IsNaN(a) \/ IsNaN(b) THEN NaN
    ELSE IF IsNum(a) /\ IsNum(b) THEN Num((a.v * b.v) \div Scale)
    ELSE IF Sign(a.v) * Sign(b.v) = 0 THEN NaN
    ELSE IF Sign(a.v) * Sign(b.v) > 0 THEN PosInf ELSE NegInf

\* a / b with numpy's float64 semantics: x/0 is inf or NaN, never an exception
FDiv(a, b) ==
    IF IsNaN(a) \/ IsNaN(b) THEN NaN
    ELSE IF IsNum(a) /\ IsNum(b) THEN
        IF b.v # 0 THEN Num((a.v * Scale) \div b.v)
        ELSE IF a.v = 0 THEN NaN
        ELSE IF a.v > 0 THEN PosInf ELSE NegInf
    ELSE IF IsInf(a) /\ IsInf(b) THEN NaN
    ELSE IF IsInf(b) THEN Num(0)
    ELSE IF b.v < 0 THEN [k |-> "inf", v |-> -a.v] ELSE a

\* a - b
FSub(a, b) ==
    IF IsNaN(a) \/ IsNaN(b) THEN NaN
    ELSE IF IsNum(a) /\ IsNum(b) THEN Num(a.v - b.v)
    ELSE IF IsInf(a) /\ IsInf(b) THEN (IF a.v = b.v THEN NaN ELSE a)
    ELSE IF IsInf(a) THEN a
    ELSE [k |-> "inf", v |-> -b.v]

\* floor of the square root of n >= 0, by bisection
RECURSIVE SqrtSearch(_, _, _)
SqrtSearch(n, lo, hi) ==
    IF lo >= hi THEN lo
    ELSE LET mid == (lo + hi + 1) \div 2
         IN IF mid * mid <= n THEN SqrtSearch(n, mid, hi)
                              ELSE SqrtSearch(n, lo, mid - 1)

ISqrt(n) == SqrtSearch(n, 0, IF n < 46340 THEN n ELSE 46340)

\* np.sqrt: NaN for a negative argument
FSqrt(a) ==
    IF IsNaN(a) THEN NaN
    ELSE IF IsInf(a) THEN (IF a.v > 0 THEN PosInf ELSE NaN)
    ELSE IF a.v < 0 THEN NaN
    ELSE Num(ISqrt(a.v * Scale))

\* ln(x / Scale) * Scale for x > 0, by the series 2 * atanh((x-1)/(x+1))
Ln(x) ==
    LET z  == ((x - Scale) * Scale) \div (x + Scale)
        z2 == (z * z) \div Scale
        z3 == (z2 * z) \div Scale
        z5 == (z3 * z2) \div Scale
        z7 == (z5 * z2) \div Scale
    IN 2 * (z + (z3 \div 3) + (z5 \div 5) + (z7 \div 7))

\* np.log: -inf at 0, NaN below 0
FLog(a) ==
    IF IsNaN(a) THEN NaN
    ELSE IF IsInf(a) THEN (IF a.v > 0 THEN PosInf ELSE NaN)
    ELSE IF a.v < 0 THEN NaN
    ELSE IF a.v = 0 THEN NegInf
    ELSE Num(Ln(a.v))

\* the standard normal distribution function at 0, 0.25, ..., 4.0, in thousandths
PhiTable == <<500, 599, 691, 773, 841, 894, 933, 960, 977,
              988, 994, 997, 999, 999, 1000, 1000, 1000>>

\* Phi(v / Scale) * Scale for v >= 0: linear interpolation in PhiTable
PhiPos(v) ==
    LET i == (4 * v) \div Scale
    IN IF i + 1 >= Len(PhiTable) THEN Scale
       ELSE LET lo == PhiTable[i + 1]
                hi == PhiTable[i + 2]
                t  == lo * Scale + (hi - lo) * (4 * v - i * Scale)
            IN t \div 1000

\* scipy.stats.norm.cdf
NormCdf(a) ==
    IF IsNaN(a) THEN NaN
    ELSE IF IsInf(a) THEN (IF a.v > 0 THEN Num(Scale) ELSE Num(0))
    ELSE IF a.v >= 0 THEN Num(PhiPos(a.v))
    ELSE Num(Scale - PhiPos(-a.v))

-----------------------------------------------------------------------------
(* pandas statistics of the closing prices *)

RECURSIVE Sum(_)
Sum(s) == IF s = <<>> THEN 0 ELSE Head(s) + Sum(Tail(s))

SeqMax(s) == CHOOSE m \in {s[i] : i \in 1..Len(s)} : \A i \in 1..Len(s) : s[i] <= m
SeqMin(s) == CHOOSE m \in {s[i] : i \in 1..Len(s)} : \A i \in 1..Len(s) : s[i] >= m

\* a faulty pct_change: the price ratio, the "- 1" forgotten
PctChangeRatio(close) ==
    [i \in 1..(IF Len(close) = 0 THEN 0 ELSE Len(close) - 1) |->
        (close[i + 1] * Scale) \div close[i]]

\* hist['Close'].pct_change().dropna(): close[i] / close[i-1] - 1, first row dropped
PctChange(close) ==
    [i \in 1..(IF Len(close) = 0 THEN 0 ELSE Len(close) - 1) |->
        ((close[i + 1] * Scale) \div close[i]) - Scale]

\* Series.std(): sample standard deviation (ddof = 1), NaN below two values
Std(r) ==
    IF Len(r) < 2 THEN NaN
    ELSE LET mean == Sum(r) \div Len(r)
             sq   == [i \in 1..Len(r) |-> (r[i] - mean) * (r[i] - mean)]
         IN Num(ISqrt(Sum(sq) \div (Len(r) - 1)))

\* abs(daily_returns).mean(): NaN for an empty series
MeanAbs(r) ==
    IF Len(r) = 0 THEN NaN
    ELSE Num(Sum([i \in 1..Len(r) |-> Abs(r[i])]) \div Len(r))

\* Series.max() / Series.min(): NaN for an empty series
Max(r) == IF Len(r) = 0 THEN NaN ELSE Num(SeqMax(r))
Min(r) == IF Len(r) = 0 THEN NaN ELSE Num(SeqMin(r))

\* daily_returns.std() * np.sqrt(252)
Volatility(r) == FMul(Std(r), FSqrt(Num(TradingDays * Scale)))

-----------------------------------------------------------------------------
(* The probability model, lines 29-34 *)

TimeToExpiry(days) == Num((days * Scale) \div DaysPerYear)

StdDev(vol, days) == FMul(vol, FSqrt(TimeToExpiry(days)))

\* np.log(strike_price / current_price) / std_dev
Threshold(strike, current, sd) ==
    FDiv(FLog(FDiv(Num(strike * Scale), current)), sd)

\* a faulty probability: the threshold itself, norm.cdf forgotten
ProbProfitNoCdf(option_type, strike, current, sd) ==
    IF option_type = "call"
    THEN FSub(Num(Scale), Threshold(strike, current, sd))
    ELSE Threshold(strike, current, sd)

ProbProfit(option_type, strike, current, sd) ==
    IF option_type = "call"
    THEN FSub(Num(Scale), NormCdf(Threshold(strike, current, sd)))
    ELSE NormCdf(Threshold(strike, current, sd))

-----------------------------------------------------------------------------
(* analyze_option, step by step *)

NoAnalysis == [k |-> "none"]

Init ==
    /\ self = [risk_free_rate |-> RiskFreeRate]
    /\ pc = "idle"
    /\ args = [k |-> "none"]
    /\ hist = << >>
    /\ current_price = None
    /\ daily_returns = << >>
    /\ volatility = None
    /\ avg_daily_move = None
    /\ max_daily_gain = None
    /\ max_daily_loss = None
    /\ std_dev = None
    /\ prob_profit = None
    /\ analysis = NoAnalysis
    /\ rendered = NoAnalysis
    /\ outcome = "none"
    /\ steps = << >>
    /\ kept = NoAnalysis

\* the caller invokes analyze_option: a fresh frame
Call ==
    /\ pc = "idle"
    /\ \E t \in Tickers, k \in Strikes, d \in Days, o \in OptionTypes, a \in Investments :
          args' = [ticker |-> t, strike_price |-> k, days_to_expiry |-> d,
                   option_type |-> o, investment_amount |-> a]
    /\ pc' = "fetch"
    /\ hist' = << >>
    /\ current_price' = None
    /\ daily_returns' = << >>
    /\ volatility' = None
    /\ avg_daily_move' = None
    /\ max_daily_gain' = None
    /\ max_daily_loss' = None
    /\ std_dev' = None
    /\ prob_profit' = None
    /\ analysis' = NoAnalysis
    /\ rendered' = NoAnalysis
    /\ outcome' = "running"
    /\ steps' = << >>
    /\ kept' = IF kept = NoAnalysis THEN kept ELSE [kept EXCEPT !.latest = FALSE]
    /\ UNCHANGED self

\* lines 17-18: the collaborator returns a price series (an empty one for an
\* unknown ticker or when it swallowed a failure)
FetchHistory ==
    /\ pc = "fetch"
    /\ \E s \in PriceSeries : hist' = s
    /\ steps' = Append(steps, "fetch")
    /\ pc' = "extract"
    /\ UNCHANGED <<self, args, current_price, daily_returns, volatility,
                   avg_daily_move, max_daily_gain, max_daily_loss, std_dev,
                   prob_profit, analysis, rendered, outcome, kept>>

\* lines 17-18: the collaborator raises (network failure); nothing is caught
FetchRaises ==
    /\ pc = "fetch"
    /\ outcome' = "CollaboratorError"
    /\ pc' = "idle"
    /\ UNCHANGED <<self, args, hist, current_price, daily_returns, volatility,
                   avg_daily_move, max_daily_gain, max_daily_loss, std_dev,
                   prob_profit, analysis, rendered, steps, kept>>

\* a faulty extraction: an empty series yields NaN and the call goes on
ExtractCurrentPriceLenient ==
    /\ pc = "extract"
    /\ current_price' = IF Len(hist) = 0 THEN NaN ELSE Num(hist[Len(hist)] * Scale)
    /\ steps' = Append(steps, "current_price")
    /\ pc' = "statistics"
    /\ UNCHANGED <<self, args, hist, daily_returns, volatility,
                   avg_daily_move, max_daily_gain, max_daily_loss, std_dev,
                   prob_profit, analysis, rendered, outcome, kept>>

\* line 19: hist['Close'].iloc[-1]; IndexError on an empty series
ExtractCurrentPrice ==
    /\ pc = "extract"
    /\ IF Len(hist) = 0
       THEN /\ outcome' = "IndexError"
            /\ pc' = "idle"
            /\ UNCHANGED <<current_price, steps>>
       ELSE /\ current_price' = Num(hist[Len(hist)] * Scale)
            /\ steps' = Append(steps, "current_price")
            /\ pc' = "statistics"
            /\ UNCHANGED outcome
    /\ UNCHANGED <<self, args, hist, daily_returns, volatility,
                   avg_daily_move, max_daily_gain, max_daily_loss, std_dev,
                   prob_profit, analysis, rendered, kept>>

\* lines 22-26
ComputeStatistics ==
    /\ pc = "statistics"
    /\ daily_returns' = PctChange(hist)
    /\ volatility' = Volatility(daily_returns')
    /\ avg_daily_move' = MeanAbs(daily_returns')
    /\ max_daily_gain' = Max(daily_returns')
    /\ max_daily_loss' = Min(daily_returns')
    /\ steps' = Append(steps, "statistics")
    /\ pc' = "probability"
    /\ UNCHANGED <<self, args, hist, current_price, std_dev, prob_profit,
                   analysis, rendered, outcome, kept>>

\* a faulty probability step: the branches of the option type exchanged
ComputeProbabilitySwapped ==
    /\ pc = "probability"
    /\ std_dev' = StdDev(volatility, args.days_to_expiry)
    /\ prob_profit' = ProbProfit(IF args.option_type = "call" THEN "put" ELSE "call",
                                 args.strike_price, current_price, std_dev')
    /\ steps' = Append(steps, "probability")
    /\ pc' = "assemble"
    /\ UNCHANGED <<self, args, hist, current_price, daily_returns, volatility,
                   avg_daily_move, max_daily_gain, max_daily_loss,
                   analysis, rendered, outcome, kept>>

\* a faulty probability step: the price is grown by self.risk_free_rate, which
\* the call then clears on the object
ComputeProbabilityDrift ==
    /\ pc = "probability"
    /\ std_dev' = StdDev(volatility, args.days_to_expiry)
    /\ prob_profit' = ProbProfit(args.option_type, args.strike_price,
                                 FMul(current_price, Num(Scale + self.risk_free_rate)),
                                 std_dev')
    /\ self' = [self EXCEPT !.risk_free_rate = 0]
    /\ steps' = Append(steps, "probability")
    /\ pc' = "assemble"
    /\ UNCHANGED <<args, hist, current_price, daily_returns, volatility,
                   avg_daily_move, max_daily_gain, max_daily_loss,
                   analysis, rendered, outcome, kept>>

\* a faulty probability step: the probability is weighted by the investment
ComputeProbabilitySized ==
    /\ pc = "probability"
    /\ std_dev' = StdDev(volatility, args.days_to_expiry)
    /\ prob_profit' = FMul(ProbProfit(args.option_type, args.strike_price,
                                      current_price, std_dev'),
                           Num((args.investment_amount * Scale) \div DefaultInvestment))
    /\ steps' = Append(steps, "probability")
    /\ pc' = "assemble"
    /\ UNCHANGED <<self, args, hist, current_price, daily_returns, volatility,
                   avg_daily_move, max_daily_gain, max_daily_loss,
                   analysis, rendered, outcome, kept>>

\* lines 29-34
ComputeProbability ==
    /\ pc = "probability"
    /\ std_dev' = StdDev(volatility, args.days_to_expiry)
    /\ prob_profit' = ProbProfit(args.option_type, args.strike_price,
                                 current_price, std_dev')
    /\ steps' = Append(steps, "probability")
    /\ pc' = "assemble"
    /\ UNCHANGED <<self, args, hist, current_price, daily_returns, volatility,
                   avg_daily_move, max_daily_gain, max_daily_loss,
                   analysis, rendered, outcome, kept>>

\* lines 37-49
Assemble ==
    /\ pc = "assemble"
    /\ analysis' = [ticker |-> args.ticker,
                    current_price |-> current_price,
                    strike_price |-> args.strike_price,
                    days_to_expiry |-> args.days_to_expiry,
                    volatility |-> volatility,
                    avg_daily_move |-> avg_daily_move,
                    max_daily_gain |-> max_daily_gain,
                    max_daily_loss |-> max_daily_loss,
                    prob_profit |-> prob_profit,
                    investment_amount |-> args.investment_amount,
                    option_type |-> args.option_type]
    /\ steps' = Append(steps, "assembly")
    /\ pc' = "render"
    /\ UNCHANGED <<self, args, hist, current_price, daily_returns, volatility,
                   avg_daily_move, max_daily_gain, max_daily_loss, std_dev,
                   prob_profit, rendered, outcome, kept>>

\* line 52 and lines 56-105: both charts are drawn from the record and the series
Render ==
    /\ pc = "render"
    /\ rendered' = [analysis |-> analysis, price_history |-> hist]
    /\ steps' = Append(steps, "render")
    /\ pc' = "return"
    /\ UNCHANGED <<self, args, hist, current_price, daily_returns, volatility,
                   avg_daily_move, max_daily_gain, max_daily_loss, std_dev,
                   prob_profit, analysis, outcome, kept>>

\* a faulty return: the record may be returned before it is rendered
ReturnBeforeRender ==
    /\ pc \in {"render", "return"}
    /\ outcome' = "returned"
    /\ pc' = "idle"
    /\ \E keep \in BOOLEAN :
          kept' = IF keep THEN [args |-> args, hist |-> hist,
                                analysis |-> analysis, latest |-> TRUE]
                          ELSE kept
    /\ UNCHANGED <<self, args, hist, current_price, daily_returns, volatility,
                   avg_daily_move, max_daily_gain, max_daily_loss, std_dev,
                   prob_profit, analysis, rendered, steps>>

\* line 54: the record reaches the caller, who may keep it for later comparison
Return ==
    /\ pc = "return"
    /\ outcome' = "returned"
    /\ pc' = "idle"
    /\ \E keep \in BOOLEAN :
          kept' = IF keep THEN [args |-> args, hist |-> hist,
                                analysis |-> analysis, latest |-> TRUE]
                          ELSE kept
    /\ UNCHANGED <<self, args, hist, current_price, daily_returns, volatility,
                   avg_daily_move, max_daily_gain, max_daily_loss, std_dev,
                   prob_profit, analysis, rendered, steps>>

Next ==
    \/ Call
    \/ FetchHistory
    \/ FetchRaises
    \/ ExtractCurrentPrice
    \/ ComputeStatistics
    \/ ComputeProbability
    \/ Assemble
    \/ Render
    \/ Return

Spec == Init /\ [][Next]_vars

-----------------------------------------------------------------------------
(* Vocabulary of the properties *)

Done(step) == \E i \in 1..Len(steps) : steps[i] = step

Ended == pc = "idle" /\ outcome # "none"

Returned == pc = "idle" /\ outcome = "returned"

\* the call that just returned and an earlier call whose record the caller kept
Pair == Returned /\ kept # NoAnalysis /\ ~kept.latest

AllEqual(s) == \A i \in 1..Len(s) : s[i] = s[1]

\* the four computed statistics and the two values derived from them
SameComputed(a, b) ==
    /\ a.volatility = b.volatility
    /\ a.avg_daily_move = b.avg_daily_move
    /\ a.max_daily_gain = b.max_daily_gain
    /\ a.max_daily_loss = b.max_daily_loss
    /\ a.current_price = b.current_price
    /\ a.prob_profit = b.prob_profit

\* the probability model's precondition (section 4.2) is violated
PreconditionViolated ==
    \/ volatility = Num(0)
    \/ args.days_to_expiry <= 0
    \/ args.strike_price <= 0
    \/ (IsNum(current_price) /\ current_price.v <= 0)

ValidInputs ==
    /\ IsNum(current_price) /\ current_price.v > 0
    /\ args.strike_price > 0
    /\ args.days_to_expiry > 0
    /\ IsNum(volatility) /\ volatility.v > 0
    /\ args.option_type \in {"call", "put"}

StepOrder == <<"fetch", "statistics", "probability", "assembly", "render">>

IsStep(s) == \E i \in 1..Len(StepOrder) : StepOrder[i] = s

-----------------------------------------------------------------------------
(* C1 *)

\* C1: when the probability model is reached with a violated precondition
\* (volatility 0, days <= 0, strike <= 0 or current price <= 0) the call ends
\* in InvalidParameterError: no probability is produced, no record is
\* assembled, rendered or returned.
C1_InvalidParameterRejected ==
    (Done("statistics") /\ PreconditionViolated) =>
        /\ prob_profit = None
        /\ analysis = NoAnalysis
        /\ rendered = NoAnalysis
        /\ Ended => outcome = "InvalidParameterError"

-----------------------------------------------------------------------------
(* C2 *)

\* the collaborator supplied no price series: it raised, or returned none
SeriesMissing ==
    \/ outcome = "CollaboratorError"
    \/ (Done("fetch") /\ hist = << >>)

NothingComputed ==
    /\ current_price = None
    /\ daily_returns = << >>
    /\ volatility = None
    /\ avg_daily_move = None
    /\ max_daily_gain = None
    /\ max_daily_loss = None
    /\ std_dev = None
    /\ prob_profit = None
    /\ analysis = NoAnalysis
    /\ rendered = NoAnalysis
    /\ \A i \in 1..Len(steps) : steps[i] = "fetch"

-----------------------------------------------------------------------------
(* C3 *)

\* C3: for a fetched series with fewer than 2 points the statistics step fails
\* with InsufficientDataError and no record is returned; with at least 2
\* points this error is not raised.
C3_InsufficientData ==
    /\ (Done("current_price") /\ Len(hist) < 2) =>
          /\ ~Done("statistics")
          /\ analysis = NoAnalysis
          /\ Ended => outcome = "InsufficientDataError"
    /\ Len(hist) >= 2 => outcome # "InsufficientDataError"

-----------------------------------------------------------------------------
(* C4 *)

\* C4: for valid inputs (current price, strike, days, volatility all > 0,
\* option type call or put) the prob_profit stored in the record is a number
\* in [0, 1].
C4_ProbabilityInUnitInterval ==
    (analysis # NoAnalysis /\ ValidInputs) =>
        /\ IsNum(analysis.prob_profit)
        /\ analysis.prob_profit.v >= 0
        /\ analysis.prob_profit.v <= Scale

C4_Witness ==
    /\ Returned /\ ValidInputs
    /\ args.strike_price < hist[Len(hist)]
    /\ args.option_type = "put"
    /\ analysis.prob_profit.v > 0
    /\ 2 * analysis.prob_profit.v < Scale

-----------------------------------------------------------------------------
(* C5 *)

\* two returned records that differ in the strike only
StrikePair ==
    /\ Pair
    /\ kept.analysis.current_price = analysis.current_price
    /\ kept.analysis.volatility = analysis.volatility
    /\ kept.analysis.days_to_expiry = analysis.days_to_expiry
    /\ kept.analysis.option_type = analysis.option_type
    /\ kept.analysis.strike_price <= analysis.strike_price

\* C5: with current price, days to expiry and volatility fixed and strikes
\* K1 <= K2, a call's probability at K2 is not greater than at K1 and a put's
\* probability at K2 is not less than at K1 (comparisons as the floats compare).
C5_MonotoneInStrike ==
    StrikePair =>
        /\ analysis.option_type = "call" =>
              ~FGt(analysis.prob_profit, kept.analysis.prob_profit)
        /\ analysis.option_type = "put" =>
              ~FLt(analysis.prob_profit, kept.analysis.prob_profit)

C5_Witness ==
    /\ StrikePair /\ ValidInputs
    /\ analysis.option_type = "call"
    /\ kept.analysis.strike_price < analysis.strike_price
    /\ FLt(analysis.prob_profit, kept.analysis.prob_profit)

-----------------------------------------------------------------------------
(* C6 *)

ZeroStatistics ==
    /\ volatility = Num(0)
    /\ avg_daily_move = Num(0)
    /\ max_daily_gain = Num(0)
    /\ max_daily_loss = Num(0)

\* C6 as stated: for every series of length >= 2 with all closes equal the
\* statistics step yields volatility, avgDailyMove, maxDailyGain and
\* maxDailyLoss all 0, without an error.
C6_ConstantSeriesFromTwo ==
    (Done("statistics") /\ Len(hist) >= 2 /\ AllEqual(hist)) =>
        /\ ZeroStatistics
        /\ outcome \in {"running", "returned"}

\* C6 as amended: for every series of length >= 3 with all closes equal the
\* statistics step yields volatility, avgDailyMove, maxDailyGain and
\* maxDailyLoss all 0, without an error; with exactly 2 equal closes the
\* volatility is NaN (the sample deviation of a single return) and the other
\* three are 0.
C6_ConstantSeriesFromThree ==
    /\ (Done("statistics") /\ Len(hist) >= 3 /\ AllEqual(hist)) =>
          /\ ZeroStatistics
          /\ outcome \in {"running", "returned"}
    /\ (Done("statistics") /\ Len(hist) = 2 /\ AllEqual(hist)) =>
          /\ volatility = NaN
          /\ avg_daily_move = Num(0)
          /\ max_daily_gain = Num(0)
          /\ max_daily_loss = Num(0)
          /\ outcome \in {"running", "returned"}

C6_Witness ==
    /\ pc = "probability"
    /\ Len(hist) >= 3 /\ AllEqual(hist)
    /\ ZeroStatistics

-----------------------------------------------------------------------------
(* C7 *)

\* the five steps that completed, in the order they completed
StepsDone == SelectSeq(steps, IsStep)

\* C7: the steps of a call occur in the order fetch, statistics, probability,
\* assembly, render, each at most once and each only after the previous one
\* completed (its result exists), and the record is returned only after the
\* rendering.
C7_StepOrder ==
    /\ Len(StepsDone) <= Len(StepOrder)
    /\ StepsDone = SubSeq(StepOrder, 1, Len(StepsDone))
    /\ volatility # None => Done("fetch")
    /\ prob_profit # None => (Done("statistics") /\ volatility # None)
    /\ analysis # NoAnalysis => (Done("probability") /\ prob_profit # None)
    /\ rendered # NoAnalysis => (Done("assembly") /\ rendered.analysis = analysis)
    /\ outcome = "returned" => (StepsDone = StepOrder /\ rendered # NoAnalysis)

C7_Witness ==
    /\ Returned
    /\ StepsDone = StepOrder
    /\ rendered.analysis = analysis

-----------------------------------------------------------------------------
(* C8 *)

\* C8: two calls with identical parameters against an identical fetched
\* series return identical records, whatever calls were made in between.
C8_Deterministic ==
    (Pair /\ kept.args = args /\ kept.hist = hist) => kept.analysis = analysis

C8_Witness ==
    /\ Pair /\ kept.args = args /\ kept.hist = hist
    /\ ValidInputs
    /\ kept.analysis = analysis

-----------------------------------------------------------------------------
(* C9 *)

\* two calls that differ in investment_amount only
InvestmentPair ==
    /\ Pair
    /\ kept.hist = hist
    /\ kept.args.ticker = args.ticker
    /\ kept.args.strike_price = args.strike_price
    /\ kept.args.days_to_expiry = args.days_to_expiry
    /\ kept.args.option_type = args.option_type
    /\ kept.args.investment_amount # args.investment_amount

\* C9: two calls that differ only in investment_amount return records with the
\* same volatility, avg_daily_move, max_daily_gain, max_daily_loss,
\* current_price and prob_profit, and every record carries the call's ticker,
\* strike_price, days_to_expiry, option_type and investment_amount unchanged.
C9_InvestmentIsInformational ==
    /\ InvestmentPair => SameComputed(kept.analysis, analysis)
    /\ analysis # NoAnalysis =>
          /\ analysis.investment_amount = args.investment_amount
          /\ analysis.ticker = args.ticker
          /\ analysis.strike_price = args.strike_price
          /\ analysis.days_to_expiry = args.days_to_expiry
          /\ analysis.option_type = args.option_type

C9_Witness ==
    /\ InvestmentPair /\ ValidInputs
    /\ analysis.investment_amount = args.investment_amount
    /\ kept.analysis.investment_amount = kept.args.investment_amount
    /\ SameComputed(kept.analysis, analysis)

-----------------------------------------------------------------------------
(* C10 *)

\* two calls that differ at most in option_type
OptionTypePair ==
    /\ Pair
    /\ kept.hist = hist
    /\ kept.args.ticker = args.ticker
    /\ kept.args.strike_price = args.strike_price
    /\ kept.args.days_to_expiry = args.days_to_expiry
    /\ kept.args.investment_amount = args.investment_amount

\* C10: no option_type is rejected; every value other than 'call' is priced
\* as a put and only 'call' as a call, so that for the same other inputs the
\* call probability and the put probability sum to 1.
C10_CallPutSumToOne ==
    /\ Ended => outcome \in {"returned", "IndexError", "CollaboratorError"}
    /\ OptionTypePair =>
          /\ (kept.args.option_type # "call" /\ args.option_type # "call") =>
                kept.analysis.prob_profit = analysis.prob_profit
          /\ (kept.args.option_type = "call" /\ args.option_type # "call") =>
                /\ IsNum(kept.analysis.prob_profit)
                /\ IsNum(analysis.prob_profit)
                /\ kept.analysis.prob_profit.v + analysis.prob_profit.v = Scale

=============================================================================
